---------------------------- MODULE Spec2Model ----------------------------
(***************************************************************************)
(* A model of vk_utils: fence-tracked command submission                   *)
(* (command_buffer.rs, wait_handle.rs), memory type selection (memory.rs), *)
(* host-visible buffer transfers (buffer_resource.rs) and reflection       *)
(* driven compute pipeline construction and descriptor updates             *)
(* (pipeline_descriptor.rs), resource construction and ownership           *)
(* (buffer_resource.rs, image2d_resource.rs, device_context.rs) and the    *)
(* swapchain's frame acquisition (swapchain.rs).                           *)
(*                                                                         *)
(* Each subsystem has its own specification over the shared variable       *)
(* tuple; a specification leaves the other subsystems' variables alone.    *)
(***************************************************************************)
EXTENDS Integers, Sequences, FiniteSets, TLC

(***************************************************************************)
(* Bounds of the model.                                                    *)
(***************************************************************************)
NumCmd == 2
MaxTypes == 3
MaxContent == 4
MaxElems == 2
MaxStride == 2
MaxOffset == 2
MaxSet == 2
NumRes == 2
MaxRefs == 2
MaxImages == 3
MaxFamilies == 2

CmdIds == 1..NumCmd
\* The BufferResources that commands name: one is enough to name or not name.
BufIds == {"buf"}

VARIABLES
    \* ---- submission (command_buffer.rs, wait_handle.rs, buffer_resource.rs Drop)
    cbOwner,    \* who owns CommandBuffer c: "unalloc" | "caller" | "token" | "gone"
    cbNative,   \* the driver's state of the native command buffer
    misuse,     \* a driver call was made on c in a state the driver forbids
    submits,    \* number of queue_submit calls that carried c
    lateCall,   \* a recording/submission call reached the driver for c after its submit
    cbRefs,     \* BufferResources named by the commands recorded into c
    fence,      \* the fence created by submit() for c: "none" | "unsignaled" | "signaled"
    tok,        \* the WaitHandle of c: "none" | "alive" | "dropping" | "dropped"
    waited,     \* wait() has returned on the WaitHandle of c
    poll,       \* the last has_completed()/wait_for() call on the WaitHandle of c
    bufAlive,   \* BufferResource b has not been dropped
    caller,     \* what the (single) issuing thread is blocked in
    crashed,    \* the issuing thread panicked
    \* ---- memory type selection (memory.rs)
    mFilter,    \* filter: u32, the memory_type_bits of the resource
    mCount,     \* properties.memory_type_count
    mTypes,     \* properties.memory_types[i].property_flags, a set of flag names
    mFlags,     \* property_flags, the flags asked for
    mResult,    \* the Option<u32> returned
    mPc,        \* "off" | "call" | "done"
    \* ---- host-visible buffer transfers (buffer_resource.rs)
    bContent,   \* content_size: the size asked for, in bytes
    bSize,      \* size: the driver-reported size of the allocation, in bytes
    bMem,       \* the bytes of the allocation
    bBefore,    \* the bytes of the allocation when the last write call was made
    bLast,      \* the last write call: upload or copy_aligned_to, with its arguments
    bOut,       \* what copy_data returned since the last write call
    bPanic,     \* a call panicked
    bOob,       \* a copy ran outside the range that was mapped for it
    bMapped,    \* the memory is host mapped
    bMapFault,  \* a driver call found the mapping in the wrong state: map_memory
                \* on mapped memory, or unmap/flush/copy on unmapped memory
    bTrace,     \* the last call and the driver calls it made, in order
    \* ---- compute pipeline construction (pipeline_descriptor.rs)
    pRefl,      \* the shader's reflection: set index -> binding index -> descriptor
    pExpl,      \* explicit_bindings: None or Some(set index -> Vec of bindings)
    pBindings,  \* descriptor_set_bindings after the merge
    pLayouts,   \* layouts: position -> the bindings its layout was created from
    pPanic,     \* construction panicked
    pPc,        \* "off" | "call" | "done"
    pCompile,   \* the CompilationResult of the source: failed() and error_string()
    pPoolSizes, \* pool_sizes as passed to create_descriptor_pool, as a bag
    pObjects,   \* how many driver objects of each kind construction created
    pReturn,    \* the Option<ComputePipeline> returned
    pStdout,    \* the lines construction printed
    pSets,      \* descriptor_sets: position -> the bindings of the set's layout
    pCall,      \* the last set_storage_buffer/set_storage_image/set_uniform_buffer
    pFrames,    \* max_frames_in_flight: u32, as two 16-bit halves
    pMaxSets,   \* the max_sets passed to create_descriptor_pool, None before
    \* ---- resource construction and ownership (buffer_resource.rs,
    \*      image2d_resource.rs, device_context.rs)
    rKind,      \* resource r: "none" | "buffer" | "image"
    rState,     \* "none" | "alive" | "dropped" | "failed" (new panicked)
    rHandle,    \* the native buffer/image: "none" | "live" | "destroyed"
    rMemory,    \* the DeviceMemory: "none" | "live" | "freed"
    rView,      \* the ImageView of an image: "none" | "live"
    rHolds,     \* resource r holds an Rc<DeviceContext>
    rFrees,     \* how often destroy_buffer/destroy_image and free_memory were called
    ctxCaller,  \* the number of Rc<DeviceContext> the caller holds
    ctxDropped, \* the strong count reached 0: the DeviceContext was dropped
    \* ---- swapchain (swapchain.rs)
    swCount,    \* image_count(): images.len()
    swCurrent,  \* current_index
    swFrame,    \* the last next_frame_buffer call: what was handed to and what
                \* came back from acquire_next_image, and what was returned
    swPresent,  \* the last swap call
    \* ---- image layouts in recorded commands (command_buffer.rs,
    \*      image2d_resource.rs)
    iLayout,    \* image -> the layout field of the image resource
    iBarriers,  \* image -> the last two barriers image_resource_transition recorded
    iOp,        \* the last recorded command that names an image layout
    \* ---- queues (gpu.rs, device_context.rs, queue.rs)
    qFamilies,  \* queue_family_properties: family index -> queue_flags
    qDevice,    \* the DeviceContext: "none" | "created" | "panicked"
    qRequested, \* the families named in queue_create_infos at create_device
    qQueue      \* the last CommandQueue::new call

subVars == <<cbOwner, cbNative, misuse, submits, lateCall, cbRefs, fence, tok,
             waited, poll, bufAlive, caller, crashed>>

memVars == <<mFilter, mCount, mTypes, mFlags, mResult, mPc>>

bufVars == <<bContent, bSize, bMem, bBefore, bLast, bOut, bPanic, bOob, bMapped,
             bMapFault, bTrace>>

pipeVars == <<pRefl, pExpl, pBindings, pLayouts, pPanic, pPc, pCompile,
              pPoolSizes, pObjects, pReturn, pStdout, pSets, pCall, pFrames,
              pMaxSets>>

resVars == <<rKind, rState, rHandle, rMemory, rView, rHolds, rFrees, ctxCaller,
             ctxDropped>>

swVars == <<swCount, swCurrent, swFrame, swPresent>>

imgVars == <<iLayout, iBarriers, iOp>>

qVars == <<qFamilies, qDevice, qRequested, qQueue>>

vars == <<subVars, memVars, bufVars, pipeVars, resVars, swVars, imgVars, qVars>>

-----------------------------------------------------------------------------
(***************************************************************************)
(* Submission: CommandBuffer, WaitHandle, the device executing the work.   *)
(***************************************************************************)
NoPoll == [op |-> "none", res |-> FALSE, fenceAt |-> "none", afterWait |-> FALSE]
Idle == [op |-> "idle", t |-> 0]

InitSub ==
    /\ cbOwner = [c \in CmdIds |-> "unalloc"]
    /\ cbNative = [c \in CmdIds |-> "unalloc"]
    /\ misuse = [c \in CmdIds |-> FALSE]
    /\ submits = [c \in CmdIds |-> 0]
    /\ lateCall = [c \in CmdIds |-> FALSE]
    /\ cbRefs = [c \in CmdIds |-> {}]
    /\ fence = [c \in CmdIds |-> "none"]
    /\ tok = [c \in CmdIds |-> "none"]
    /\ waited = [c \in CmdIds |-> FALSE]
    /\ poll = [c \in CmdIds |-> NoPoll]
    /\ bufAlive = [b \in BufIds |-> TRUE]
    /\ caller = Idle
    /\ crashed = FALSE

\* The issuing thread can call a method of CommandBuffer c: it is running and
\* still owns c (submit(self) moves c into the WaitHandle).
CallerOwns(c) ==
    /\ ~crashed
    /\ caller = Idle
    /\ cbOwner[c] = "caller"

\* The issuing thread can call a method of the WaitHandle of c.
CallerHolds(c) ==
    /\ ~crashed
    /\ caller = Idle
    /\ tok[c] = "alive"

\* CommandBuffer::new: allocate_command_buffers from the queue's pool.
NewCommandBuffer(c) ==
    /\ ~crashed
    /\ caller = Idle
    /\ cbOwner[c] = "unalloc"
    /\ \A d \in CmdIds : d < c => cbOwner[d] # "unalloc"
    /\ cbOwner' = [cbOwner EXCEPT ![c] = "caller"]
    /\ cbNative' = [cbNative EXCEPT ![c] = "initial"]
    /\ UNCHANGED <<misuse, submits, lateCall, cbRefs, fence, tok, waited, poll,
                   bufAlive, caller, crashed>>

\* A driver call that requires state `from` and moves the command buffer to
\* `to`.  Made in any other state it breaks the driver's rules: the driver
\* either reports an error, which the wrapper turns into a panic, or accepts
\* the call and leaves the command buffer in state `bad`.
DriverStep(c, from, to, bad) ==
    IF cbNative[c] = from
    THEN /\ cbNative' = [cbNative EXCEPT ![c] = to]
         /\ UNCHANGED <<misuse, crashed>>
    ELSE /\ misuse' = [misuse EXCEPT ![c] = TRUE]
         /\ \E ok \in BOOLEAN :
              IF ok THEN /\ cbNative' = [cbNative EXCEPT ![c] = bad]
                         /\ UNCHANGED crashed
                    ELSE /\ crashed' = TRUE
                         /\ UNCHANGED cbNative

Late(c) == [lateCall EXCEPT ![c] = @ \/ submits[c] > 0]

\* CommandBuffer::begin
Begin(c) ==
    /\ CallerOwns(c)
    /\ DriverStep(c, "initial", "recording", "invalid")
    /\ lateCall' = Late(c)
    /\ UNCHANGED <<cbOwner, submits, cbRefs, fence, tok, waited, poll, bufAlive, caller>>

\* A cmd_* call on the command buffer: the driver returns nothing, so a call
\* outside the recording state only leaves the command buffer invalid.
CmdStep(c) ==
    IF cbNative[c] = "recording"
    THEN UNCHANGED <<cbNative, misuse>>
    ELSE /\ misuse' = [misuse EXCEPT ![c] = TRUE]
         /\ cbNative' = [cbNative EXCEPT ![c] = "invalid"]

\* CommandBuffer::bind_compute_pipeline, dispatch_compute, record_handle, ...:
\* commands that name no BufferResource.
RecordCmd(c) ==
    /\ CallerOwns(c)
    /\ CmdStep(c)
    /\ lateCall' = Late(c)
    /\ UNCHANGED <<cbOwner, submits, cbRefs, fence, tok, waited, poll, bufAlive,
                   caller, crashed>>

\* CommandBuffer::buffer_resource_barrier(&BufferResource): the barrier names
\* buffer b; the borrow of b ends when the call returns.
BufferResourceBarrier(c, b) ==
    /\ CallerOwns(c)
    /\ bufAlive[b]
    /\ CmdStep(c)
    /\ cbRefs' = [cbRefs EXCEPT ![c] = @ \cup {b}]
    /\ lateCall' = Late(c)
    /\ UNCHANGED <<cbOwner, submits, fence, tok, waited, poll, bufAlive, caller, crashed>>

\* CommandBuffer::end
End(c) ==
    /\ CallerOwns(c)
    /\ DriverStep(c, "recording", "executable", "invalid")
    /\ lateCall' = Late(c)
    /\ UNCHANGED <<cbOwner, submits, cbRefs, fence, tok, waited, poll, bufAlive, caller>>

\* CommandBuffer::submit with `&mut self` in place of `self`: the caller keeps
\* the command buffer.
SubmitKeepsOwnership(c) ==
    /\ CallerOwns(c)
    /\ submits[c] < 3
    /\ DriverStep(c, "recording", "pending", "pending")
    /\ lateCall' = Late(c)
    /\ fence' = [fence EXCEPT ![c] = "unsignaled"]
    /\ IF crashed'
       THEN UNCHANGED <<cbOwner, submits, tok>>
       ELSE /\ submits' = [submits EXCEPT ![c] = @ + 1]
            /\ tok' = [tok EXCEPT ![c] = "alive"]
            /\ UNCHANGED cbOwner
    /\ UNCHANGED <<cbRefs, waited, poll, bufAlive, caller>>

\* CommandBuffer::submit(self): create_fence, end_command_buffer (a panic here
\* leaves the fence created and no token), queue_submit, WaitHandle::new(self,
\* fence).  The submitted command buffer is pending on the device.
Submit(c) ==
    /\ CallerOwns(c)
    /\ DriverStep(c, "recording", "pending", "pending")
    /\ lateCall' = Late(c)
    /\ fence' = [fence EXCEPT ![c] = "unsignaled"]
    /\ IF crashed'
       THEN UNCHANGED <<cbOwner, submits, tok>>
       ELSE /\ submits' = [submits EXCEPT ![c] = @ + 1]
            /\ tok' = [tok EXCEPT ![c] = "alive"]
            /\ cbOwner' = [cbOwner EXCEPT ![c] = "token"]
    /\ UNCHANGED <<cbRefs, waited, poll, bufAlive, caller>>


\* The device finishes work that queue_submit handed over with Fence::null()
\* in place of the fence: no fence is signaled.
GpuFinishNoFence(c) ==
    /\ cbNative[c] = "pending"
    /\ fence[c] = "unsignaled"
    /\ cbNative' = [cbNative EXCEPT ![c] = "spent"]
    /\ UNCHANGED <<cbOwner, misuse, submits, lateCall, cbRefs, fence, tok, waited,
                   poll, bufAlive, caller, crashed>>

\* The device finishes the work of a pending command buffer and signals the
\* fence passed to queue_submit.  ONE_TIME_SUBMIT: the command buffer is then
\* spent.
GpuFinish(c) ==
    /\ cbNative[c] = "pending"
    /\ fence[c] = "unsignaled"
    /\ fence' = [fence EXCEPT ![c] = "signaled"]
    /\ cbNative' = [cbNative EXCEPT ![c] = "spent"]
    /\ UNCHANGED <<cbOwner, misuse, submits, lateCall, cbRefs, tok, waited, poll,
                   bufAlive, caller, crashed>>

\* has_completed with `Err(_) => true`.
HasCompletedErrTrue(c) ==
    /\ CallerHolds(c)
    /\ poll' = [poll EXCEPT ![c] = [op |-> "has_completed", res |-> TRUE,
                                     fenceAt |-> fence[c],
                                     afterWait |-> waited[c]]]
    /\ UNCHANGED <<cbOwner, cbNative, misuse, submits, lateCall, cbRefs, fence, tok,
                   waited, bufAlive, caller, crashed>>

\* WaitHandle::has_completed: wait_for_fences with timeout 0; Ok(()) => true,
\* Err(_) (the timeout) => false.
HasCompleted(c) ==
    /\ CallerHolds(c)
    /\ poll' = [poll EXCEPT ![c] = [op |-> "has_completed",
                                     res |-> (fence[c] = "signaled"),
                                     fenceAt |-> fence[c],
                                     afterWait |-> waited[c]]]
    /\ UNCHANGED <<cbOwner, cbNative, misuse, submits, lateCall, cbRefs, fence, tok,
                   waited, bufAlive, caller, crashed>>

\* wait_for_fences(&[fence], true, u64::MAX) returns Ok once the fence is
\* signaled.
FenceWaitDone(c) == fence[c] = "signaled"

\* WaitHandle::wait is entered: the issuing thread blocks.
WaitCall(c) ==
    /\ CallerHolds(c)
    /\ caller' = [op |-> "wait", t |-> c]
    /\ UNCHANGED <<cbOwner, cbNative, misuse, submits, lateCall, cbRefs, fence, tok,
                   waited, poll, bufAlive, crashed>>

\* WaitHandle::wait returns.
WaitReturn(c) ==
    /\ ~crashed
    /\ caller = [op |-> "wait", t |-> c]
    /\ FenceWaitDone(c)
    /\ waited' = [waited EXCEPT ![c] = TRUE]
    /\ caller' = Idle
    /\ UNCHANGED <<cbOwner, cbNative, misuse, submits, lateCall, cbRefs, fence, tok,
                   poll, bufAlive, crashed>>

\* WaitHandle::wait_for(timeout) is entered: the issuing thread blocks in
\* wait_for_fences for at most the timeout.
WaitForCall(c) ==
    /\ CallerHolds(c)
    /\ caller' = [op |-> "wait_for", t |-> c]
    /\ UNCHANGED <<cbOwner, cbNative, misuse, submits, lateCall, cbRefs, fence, tok,
                   waited, poll, bufAlive, crashed>>

\* wait_for with `.expect(..)` on the result of wait_for_fences, as wait()
\* has it: the timeout panics.
WaitForReturnExpect(c) ==
    /\ ~crashed
    /\ caller = [op |-> "wait_for", t |-> c]
    /\ IF fence[c] = "signaled"
       THEN /\ poll' = [poll EXCEPT ![c] = [op |-> "wait_for", res |-> TRUE,
                                            fenceAt |-> fence[c],
                                            afterWait |-> waited[c]]]
            /\ caller' = Idle
            /\ UNCHANGED crashed
       ELSE /\ crashed' = TRUE
            /\ UNCHANGED <<poll, caller>>
    /\ UNCHANGED <<cbOwner, cbNative, misuse, submits, lateCall, cbRefs, fence, tok,
                   waited, bufAlive>>

\* WaitHandle::wait_for(timeout) returns: wait_for_fences came back, with
\* Ok(()) (=> true) if the fence is signaled and with the timeout error
\* (Err(_) => false) if the timeout ran out first.  The timeout is the
\* caller's, so the return can come at any time.
WaitForReturn(c) ==
    /\ ~crashed
    /\ caller = [op |-> "wait_for", t |-> c]
    /\ poll' = [poll EXCEPT ![c] = [op |-> "wait_for",
                                     res |-> (fence[c] = "signaled"),
                                     fenceAt |-> fence[c],
                                     afterWait |-> waited[c]]]
    /\ caller' = Idle
    /\ UNCHANGED <<cbOwner, cbNative, misuse, submits, lateCall, cbRefs, fence, tok,
                   waited, bufAlive, crashed>>

\* Drop for WaitHandle is entered: self.wait() blocks the issuing thread.
DropCall(c) ==
    /\ CallerHolds(c)
    /\ tok' = [tok EXCEPT ![c] = "dropping"]
    /\ caller' = [op |-> "drop", t |-> c]
    /\ UNCHANGED <<cbOwner, cbNative, misuse, submits, lateCall, cbRefs, fence,
                   waited, poll, bufAlive, crashed>>

\* Drop for WaitHandle without the self.wait() call.
DropReturnNoWait(c) ==
    /\ ~crashed
    /\ caller = [op |-> "drop", t |-> c]
    /\ cbNative' = [cbNative EXCEPT ![c] = "freed"]
    /\ tok' = [tok EXCEPT ![c] = "dropped"]
    /\ cbOwner' = [cbOwner EXCEPT ![c] = "gone"]
    /\ caller' = Idle
    /\ UNCHANGED <<misuse, submits, lateCall, cbRefs, fence, waited, poll, bufAlive,
                   crashed>>

\* Drop for WaitHandle: once self.wait() has returned, free_command_buffers
\* gives the command buffer back to the queue's pool.
DropReturn(c) ==
    /\ ~crashed
    /\ caller = [op |-> "drop", t |-> c]
    /\ FenceWaitDone(c)
    /\ cbNative' = [cbNative EXCEPT ![c] = "freed"]
    /\ tok' = [tok EXCEPT ![c] = "dropped"]
    /\ cbOwner' = [cbOwner EXCEPT ![c] = "gone"]
    /\ caller' = Idle
    /\ UNCHANGED <<misuse, submits, lateCall, cbRefs, fence, waited, poll, bufAlive,
                   crashed>>

\* A CommandBuffer that was never submitted goes out of scope: CommandBuffer
\* has no Drop, the native command buffer stays allocated.
DropCommandBuffer(c) ==
    /\ CallerOwns(c)
    /\ cbOwner' = [cbOwner EXCEPT ![c] = "gone"]
    /\ UNCHANGED <<cbNative, misuse, submits, lateCall, cbRefs, fence, tok, waited,
                   poll, bufAlive, caller, crashed>>

\* Drop for BufferResource: free_memory, destroy_buffer.  Nothing ties the
\* buffer to the command buffers whose commands name it.
DropBuffer(b) ==
    /\ ~crashed
    /\ caller = Idle
    /\ bufAlive[b]
    /\ bufAlive' = [bufAlive EXCEPT ![b] = FALSE]
    /\ UNCHANGED <<cbOwner, cbNative, misuse, submits, lateCall, cbRefs, fence, tok,
                   waited, poll, caller, crashed>>

NextSub ==
    \/ \E c \in CmdIds : NewCommandBuffer(c)
    \/ \E c \in CmdIds : Begin(c)
    \/ \E c \in CmdIds : RecordCmd(c)
    \/ \E c \in CmdIds, b \in BufIds : BufferResourceBarrier(c, b)
    \/ \E c \in CmdIds : End(c)
    \/ \E c \in CmdIds : Submit(c)
    \/ \E c \in CmdIds : GpuFinish(c)
    \/ \E c \in CmdIds : HasCompleted(c)
    \/ \E c \in CmdIds : WaitCall(c)
    \/ \E c \in CmdIds : WaitReturn(c)
    \/ \E c \in CmdIds : DropCall(c)
    \/ \E c \in CmdIds : DropReturn(c)
    \/ \E c \in CmdIds : DropCommandBuffer(c)
    \/ \E b \in BufIds : DropBuffer(b)

\* The life of WaitHandles: command buffers are created, begun and
\* submitted, and their tokens are polled, waited for with and without a
\* timeout, and dropped, while the device completes the work.
NextToken ==
    \/ \E c \in CmdIds : NewCommandBuffer(c)
    \/ \E c \in CmdIds : Begin(c)
    \/ \E c \in CmdIds : Submit(c)
    \/ \E c \in CmdIds : GpuFinish(c)
    \/ \E c \in CmdIds : HasCompleted(c)
    \/ \E c \in CmdIds : WaitCall(c)
    \/ \E c \in CmdIds : WaitReturn(c)
    \/ \E c \in CmdIds : WaitForCall(c)
    \/ \E c \in CmdIds : WaitForReturn(c)
    \/ \E c \in CmdIds : DropCall(c)
    \/ \E c \in CmdIds : DropReturn(c)

\* The calls that block until the device is done, with has_completed next to
\* them.
NextWait ==
    \/ \E c \in CmdIds : NewCommandBuffer(c)
    \/ \E c \in CmdIds : Begin(c)
    \/ \E c \in CmdIds : Submit(c)
    \/ \E c \in CmdIds : GpuFinish(c)
    \/ \E c \in CmdIds : HasCompleted(c)
    \/ \E c \in CmdIds : WaitCall(c)
    \/ \E c \in CmdIds : WaitReturn(c)
    \/ \E c \in CmdIds : DropCall(c)
    \/ \E c \in CmdIds : DropReturn(c)

-----------------------------------------------------------------------------
(***************************************************************************)
(* Memory type selection: memory_type_index.                               *)
(***************************************************************************)
None == <<>>
Some(x) == <<x>>

RECURSIVE BitAnd(_, _)
\* a & b on unsigned integers
BitAnd(a, b) ==
    IF a = 0 \/ b = 0 THEN 0
    ELSE (a % 2) * (b % 2) + 2 * BitAnd(a \div 2, b \div 2)

\* 1 << n on u32: n < memory_type_count <= 32, so no bit is shifted out.
Shl32(a, n) == a * 2 ^ n

PropertyFlagBits == {"DEVICE_LOCAL", "HOST_VISIBLE"}
PropertyFlags == SUBSET PropertyFlagBits

RECURSIVE MemoryTypeIndexNoFlags(_, _, _, _, _)
\* memory_type_index without the property flag test.
MemoryTypeIndexNoFlags(i, filter, count, types, flags) ==
    IF i >= count THEN None
    ELSE IF BitAnd(filter, Shl32(1, i)) > 1
         THEN Some(i)
         ELSE MemoryTypeIndexNoFlags(i + 1, filter, count, types, flags)

RECURSIVE MemoryTypeIndexFrom(_, _, _, _, _)
\* The loop of memory_type_index from index i on:
\*   for i in 0..count { if (filter & (1 << i) > 1) && (flags_i & flags) == flags
\*                       { return Some(i) } }  None
\* In Rust `&` binds tighter than `>`: the test is (filter & (1 << i)) > 1.
MemoryTypeIndexFrom(i, filter, count, types, flags) ==
    IF i >= count THEN None
    ELSE IF /\ BitAnd(filter, Shl32(1, i)) > 1
            /\ (types[i] \cap flags) = flags
         THEN Some(i)
         ELSE MemoryTypeIndexFrom(i + 1, filter, count, types, flags)

memory_type_index(filter, count, types, flags) ==
    MemoryTypeIndexFrom(0, filter, count, types, flags)

MemOff ==
    /\ mFilter = 0
    /\ mCount = 0
    /\ mTypes = [i \in 0..(MaxTypes - 1) |-> {}]
    /\ mFlags = {}
    /\ mResult = None
    /\ mPc = "off"

InitMem ==
    /\ mFilter \in 0..(2 ^ MaxTypes - 1)
    /\ mCount \in 0..MaxTypes
    /\ mTypes \in [0..(MaxTypes - 1) -> PropertyFlags]
    /\ mFlags \in PropertyFlags
    /\ mResult = None
    /\ mPc = "call"

\* A caller (BufferResource::new, Image2DResource::new) calls memory_type_index.
CallMemoryTypeIndex ==
    /\ mPc = "call"
    /\ mResult' = memory_type_index(mFilter, mCount, mTypes, mFlags)
    /\ mPc' = "done"
    /\ UNCHANGED <<mFilter, mCount, mTypes, mFlags>>

NextMem == CallMemoryTypeIndex

-----------------------------------------------------------------------------
(***************************************************************************)
(* BufferResource: upload, copy_aligned_to, copy_data on the mapped bytes. *)
(* An element type T is given by its size_of::<T>() w; an element is a     *)
(* number below 256^w, laid out in memory little-endian.                   *)
(***************************************************************************)
ElemWidths == {1, 2}

\* The bytes of element v of width w, and back.
Enc(v, w) == [k \in 1..w |-> (v \div (256 ^ (k - 1))) % 256]

RECURSIVE Dec(_)
Dec(bs) == IF bs = <<>> THEN 0 ELSE bs[1] + 256 * Dec(Tail(bs))

\* The bytes of a slice &[T].
Bytes(data, w) ==
    [j \in 1..(Len(data) * w) |-> Enc(data[((j - 1) \div w) + 1], w)[((j - 1) % w) + 1]]

\* copy_nonoverlapping of `bytes` to the byte offset `off` of the allocation;
\* only the bytes that fall into the allocation are kept in the model.
WriteAt(mem, off, bytes) ==
    [j \in 1..Len(mem) |->
        IF j - 1 >= off /\ j - 1 < off + Len(bytes) THEN bytes[j - off] ELSE mem[j]]

\* The slices the model passes: n consecutive numbers from 255 on, so that
\* all elements differ and a wide element has more than one non-zero byte.
Iota(n, w) == [i \in 1..n |-> (254 + i) % (256 ^ w)]
DataOf(w) == {Iota(n, w) : n \in 0..MaxElems}

\* upload with the destination cast to *mut u8: data.len() bytes are copied.
UploadByteCount(mem, data, w) ==
    WriteAt(mem, 0, SubSeq(Bytes(data, w), 1, Len(data)))

\* upload<T>: copy_nonoverlapping(data.as_ptr(), ptr as *mut T, data.len())
\* copies data.len() elements of T to the start of the mapping.
UploadMem(mem, data, w) == WriteAt(mem, 0, Bytes(data, w))

RECURSIVE CopyAlignedFrom(_, _, _, _, _, _, _, _, _)
\* The loop of copy_aligned_to from byte offset i and data_index di on:
\*   for i in (0..content_size).step_by(stride) {
\*     map [i, i + stride)
\*     copy_nonoverlapping(data[di..di + element_size].as_ptr(), ptr as *mut T,
\*                         element_size)       -- element_size ELEMENTS of T
\*     di += element_size; flush; unmap }
\* The slice index panics when di + element_size > data.len().
CopyAlignedFrom(i, di, mem, oob, data, w, es, stride, content) ==
    IF i >= content THEN [mem |-> mem, panic |-> FALSE, oob |-> oob]
    ELSE IF di + es > Len(data) THEN [mem |-> mem, panic |-> TRUE, oob |-> oob]
    ELSE CopyAlignedFrom(i + stride, di + es,
                         WriteAt(mem, i, Bytes(SubSeq(data, di + 1, di + es), w)),
                         oob \/ es * w > stride \/ i + stride > Len(mem),
                         data, w, es, stride, content)

\* copy_aligned_to<T>(data, element_size: Option<usize>, stride)
CopyAlignedTo(mem, data, w, esOpt, stride, content) ==
    LET es == IF esOpt = None THEN w ELSE esOpt[1]
    IN  CopyAlignedFrom(0, 0, mem, FALSE, data, w, es, stride, content)

\* copy_data<T>: content_size / size_of::<T>() elements read from the mapping.
CopyDataVals(mem, w, content) ==
    [i \in 1..(content \div w) |-> Dec(SubSeq(mem, (i - 1) * w + 1, i * w))]

NoCall == [op |-> "none"]
NoTrace == [op |-> "none", calls |-> <<>>]
NoOut == [w |-> 0, vals |-> <<>>]

BufOff ==
    /\ bContent = 0
    /\ bSize = 0
    /\ bMem = <<>>
    /\ bBefore = <<>>
    /\ bLast = NoCall
    /\ bOut = NoOut
    /\ bPanic = FALSE
    /\ bOob = FALSE
    /\ bMapped = FALSE
    /\ bMapFault = FALSE
    /\ bTrace = NoTrace

RoundUp(n, a) == ((n + a - 1) \div a) * a

\* BufferResource::new: content_size is the size asked for, size is
\* memory_requirements.size, the request rounded up to the driver's
\* alignment.  The fresh allocation holds whatever the driver left there.
InitBuf ==
    /\ bContent \in 0..MaxContent
    /\ \E a \in {1, 4} : bSize = RoundUp(bContent, a)
    /\ \E fill \in {0, 170} : bMem = [j \in 1..bSize |-> fill]
    /\ bBefore = bMem
    /\ bLast = NoCall
    /\ bOut = NoOut
    /\ bPanic = FALSE
    /\ bOob = FALSE
    /\ bMapped = FALSE
    /\ bMapFault = FALSE
    /\ bTrace = NoTrace

\* The driver calls of the transfer operations, in source order.
UploadCalls == <<"map", "copy", "flush", "unmap">>
CopyDataCalls == <<"map", "read", "unmap">>
ReadCalls == <<"map">>
FlushAllCalls == <<"flush", "unmap">>
\* for_each: read(), flush_all(), unmap_memory
ForEachCalls == ReadCalls \o <<"read">> \o FlushAllCalls \o <<"unmap">>

RECURSIVE CopyAlignedCalls(_, _, _, _, _, _)
\* The driver calls of the loop of copy_aligned_to from offset i and
\* data_index di on; the slice index panics after map_memory.
CopyAlignedCalls(i, di, n, es, stride, content) ==
    IF i >= content THEN <<>>
    ELSE IF di + es > n THEN <<"map">>
    ELSE UploadCalls \o CopyAlignedCalls(i + stride, di + es, n, es, stride, content)

RECURSIVE MapRun(_, _)
\* The mapping after the driver calls `calls`: map_memory wants the memory
\* unmapped, every other call wants it mapped.
MapRun(st, calls) ==
    IF calls = <<>> THEN st
    ELSE LET c == Head(calls)
         IN  MapRun([mapped |-> IF c = "map" THEN TRUE
                                ELSE IF c = "unmap" THEN FALSE ELSE st.mapped,
                     fault |-> st.fault \/ (c = "map") = st.mapped],
                    Tail(calls))

\* The operation op made the driver calls `calls`.
DriverCalls(op, calls) ==
    /\ bTrace' = [op |-> op, calls |-> calls]
    /\ LET r == MapRun([mapped |-> bMapped, fault |-> bMapFault], calls)
       IN  bMapped' = r.mapped /\ bMapFault' = r.fault

\* map_memory on memory that is still mapped may return an error:
\* .expect("Memory map failed on buffer") panics.
MapFails(op) ==
    /\ bMapped
    /\ bPanic' = TRUE
    /\ bMapFault' = TRUE
    /\ bTrace' = [op |-> op, calls |-> <<"map">>]
    /\ UNCHANGED <<bContent, bSize, bMem, bBefore, bLast, bOut, bOob, bMapped>>

\* upload_at with the offset applied after the cast to *mut T: offset counts
\* elements of T.
UploadAtElems(mem, off, data, w) == WriteAt(mem, off * w, Bytes(data, w))

\* upload_at<T>: copy_nonoverlapping(data.as_ptr(), ptr.offset(offset) as *mut T,
\* data.len()); ptr is *mut c_void, so offset counts bytes.
UploadAtMem(mem, off, data, w) == WriteAt(mem, off, Bytes(data, w))

\* upload that also takes the length of the data as the new content_size.
UploadResizes(w, data) ==
    /\ ~bPanic
    /\ \/ MapFails("upload")
       \/ /\ bBefore' = bMem
          /\ bMem' = UploadMem(bMem, data, w)
          /\ bOob' = (bOob \/ Len(data) * w > bSize)
          /\ bLast' = [op |-> "upload", w |-> w, data |-> data, off |-> 0]
          /\ bOut' = NoOut
          /\ bContent' = Len(data) * w
          /\ DriverCalls("upload", UploadCalls)
          /\ UNCHANGED <<bSize, bPanic>>

\* BufferResource::upload(&data)
Upload(w, data) ==
    /\ ~bPanic
    /\ \/ MapFails("upload")
       \/ /\ bBefore' = bMem
          /\ bMem' = UploadMem(bMem, data, w)
          /\ bOob' = (bOob \/ Len(data) * w > bSize)
          /\ bLast' = [op |-> "upload", w |-> w, data |-> data, off |-> 0]
          /\ bOut' = NoOut
          /\ DriverCalls("upload", UploadCalls)
          /\ UNCHANGED <<bContent, bSize, bPanic>>

\* BufferResource::upload_at(offset, &data)
UploadAt(off, w, data) ==
    /\ ~bPanic
    /\ \/ MapFails("upload_at")
       \/ /\ bBefore' = bMem
          /\ bMem' = UploadAtMem(bMem, off, data, w)
          /\ bOob' = (bOob \/ off + Len(data) * w > bSize)
          /\ bLast' = [op |-> "upload_at", w |-> w, data |-> data, off |-> off]
          /\ bOut' = NoOut
          /\ DriverCalls("upload_at", UploadCalls)
          /\ UNCHANGED <<bContent, bSize, bPanic>>

\* BufferResource::copy_aligned_to(&data, element_size, stride)
CopyAligned(w, data, esOpt, stride) ==
    /\ ~bPanic
    /\ bContent > 0 \/ ~bMapped
    /\ \/ bContent > 0 /\ MapFails("copy_aligned_to")
       \/ /\ LET r == CopyAlignedTo(bMem, data, w, esOpt, stride, bContent)
             IN  /\ bMem' = r.mem
                 /\ bPanic' = r.panic
                 /\ bOob' = (bOob \/ r.oob)
          /\ bBefore' = bMem
          /\ bLast' = [op |-> "copy_aligned_to", w |-> w, data |-> data,
                       es |-> IF esOpt = None THEN w ELSE esOpt[1], stride |-> stride]
          /\ bOut' = NoOut
          /\ DriverCalls("copy_aligned_to",
                         CopyAlignedCalls(0, 0, Len(data),
                                          IF esOpt = None THEN w ELSE esOpt[1],
                                          stride, bContent))
          /\ UNCHANGED <<bContent, bSize>>

\* BufferResource::copy_data::<T>()
CopyData(w) ==
    /\ ~bPanic
    /\ \/ MapFails("copy_data")
       \/ /\ bOut' = [w |-> w, vals |-> CopyDataVals(bMem, w, bContent)]
          /\ DriverCalls("copy_data", CopyDataCalls)
          /\ UNCHANGED <<bContent, bSize, bMem, bBefore, bLast, bPanic, bOob>>

\* BufferResource::read::<T>(): the slice over the mapping is returned and the
\* memory stays mapped.
Read ==
    /\ ~bPanic
    /\ \/ MapFails("read")
       \/ /\ DriverCalls("read", ReadCalls)
          /\ UNCHANGED <<bContent, bSize, bMem, bBefore, bLast, bOut, bPanic, bOob>>

\* BufferResource::flush_all()
FlushAll ==
    /\ ~bPanic
    /\ DriverCalls("flush_all", FlushAllCalls)
    /\ UNCHANGED <<bContent, bSize, bMem, bBefore, bLast, bOut, bPanic, bOob>>

\* BufferResource::for_each::<T, F>(f)
ForEach ==
    /\ ~bPanic
    /\ \/ MapFails("for_each")
       \/ /\ DriverCalls("for_each", ForEachCalls)
          /\ UNCHANGED <<bContent, bSize, bMem, bBefore, bLast, bOut, bPanic, bOob>>

\* Whole-buffer writes and reads.
NextBuf ==
    \/ \E w \in ElemWidths : \E data \in DataOf(w) : Upload(w, data)
    \/ \E w \in ElemWidths : \E data \in DataOf(w) :
         \E esOpt \in {None} \cup {Some(k) : k \in ElemWidths} :
           \E stride \in 1..MaxStride : CopyAligned(w, data, esOpt, stride)
    \/ \E w \in ElemWidths : CopyData(w)

\* Writes at an offset.
NextXfer ==
    \/ \E w \in ElemWidths : \E data \in DataOf(w) : Upload(w, data)
    \/ \E off \in 0..MaxOffset : \E w \in ElemWidths : \E data \in DataOf(w) :
         UploadAt(off, w, data)
    \/ \E w \in ElemWidths : CopyData(w)

\* Every operation that maps or unmaps the memory, on one-byte elements.
NextMap ==
    \/ \E data \in DataOf(1) : Upload(1, data)
    \/ \E off \in 0..1 : \E data \in DataOf(1) : UploadAt(off, 1, data)
    \/ \E data \in DataOf(1) : \E stride \in 1..MaxStride :
         CopyAligned(1, data, None, stride)
    \/ CopyData(1)
    \/ Read
    \/ FlushAll
    \/ ForEach

-----------------------------------------------------------------------------
(***************************************************************************)
(* ComputePipeline::new_from_source_string: from the reflection and the    *)
(* explicit bindings to the array of descriptor set layouts.  Maps         *)
(* (HashMap, BTreeMap) are functions on their key set.                     *)
(***************************************************************************)
SetIdx == 0..MaxSet
BindingIdx == {0, 1}

SetMinOf(S) == CHOOSE x \in S : \A y \in S : x <= y
SetMaxOf(S) == CHOOSE x \in S : \A y \in S : y <= x

RECURSIVE Ascending(_)
\* The keys of a BTreeMap in iteration order.
Ascending(S) ==
    IF S = {} THEN <<>>
    ELSE <<SetMinOf(S)>> \o Ascending(S \ {SetMinOf(S)})

\* The descriptors a shader of the model declares at (set, binding).
Descriptors ==
    << [ty |-> "STORAGE_BUFFER", binding_count |-> <<"One">>],
       [ty |-> "UNIFORM_BUFFER", binding_count |-> <<"StaticSized", 3>>],
       [ty |-> "STORAGE_IMAGE", binding_count |-> <<"Unbounded">>] >>
DescriptorAt(set, b) == Descriptors[((set + b) % 3) + 1]

\* The reflections of the model: any sets, each with at least one binding.
ReflectedSets(set) ==
    {[b \in B |-> DescriptorAt(set, b)] : B \in (SUBSET BindingIdx) \ {{}}}
Reflections ==
    UNION {{r \in [S -> UNION {ReflectedSets(x) : x \in S}] :
                \A x \in S : r[x] \in ReflectedSets(x)} : S \in SUBSET SetIdx}

\* The bindings a caller passes explicitly; ExplicitB collides with a
\* reflected binding index.
ExplicitA == [binding |-> 2, descriptor_type |-> "SAMPLER",
              descriptor_count |-> 1, stage_flags |-> "COMPUTE"]
ExplicitB == [binding |-> 0, descriptor_type |-> "UNIFORM_BUFFER",
              descriptor_count |-> 4, stage_flags |-> "COMPUTE"]
ExplicitVecs == {<<>>, <<ExplicitA>>, <<ExplicitB, ExplicitA>>}
Explicits ==
    {None} \cup {Some(e) : e \in UNION {[S -> ExplicitVecs] : S \in SUBSET SetIdx}}

\* The DescriptorSetLayoutBinding built for one reflected descriptor.
LayoutBinding(index, d) ==
    [binding |-> index,
     descriptor_type |-> d.ty,
     descriptor_count |-> CASE d.binding_count[1] = "One" -> 1
                            [] d.binding_count[1] = "StaticSized" -> d.binding_count[2]
                            [] d.binding_count[1] = "Unbounded" -> 0,
     stage_flags |-> "COMPUTE"]

\* create_descriptor_set_bindings: per set, the bindings in the order of the
\* reflection.
CreateDescriptorSetBindings(refl) ==
    [set \in DOMAIN refl |->
        LET order == Ascending(DOMAIN refl[set])
        IN  [k \in 1..Len(order) |-> LayoutBinding(order[k], refl[set][order[k]])]]

\* The merge with every explicit entry inserted over what is there.
MergeExplicitReplace(bindings, expl) ==
    [set \in (DOMAIN bindings) \cup (DOMAIN expl) |->
        IF set \in DOMAIN expl THEN expl[set] ELSE bindings[set]]

\* The merge loop: a vacant entry takes the explicit Vec, an occupied one is
\* extended by it.
MergeExplicit(bindings, expl) ==
    [set \in (DOMAIN bindings) \cup (DOMAIN expl) |->
        IF set \notin DOMAIN bindings THEN expl[set]
        ELSE IF set \in DOMAIN expl THEN bindings[set] \o expl[set]
        ELSE bindings[set]]

\* let mut layouts = vec![DescriptorSetLayout::default(); bindings.len()];
\* for (index, set) in &bindings { layouts[*index as usize] = layout(set) }
\* The indexing panics on an index that is not below the length.
NullLayout == <<"null">>
BuildLayouts(bindings) ==
    LET len == Cardinality(DOMAIN bindings)
    IN  IF \E index \in DOMAIN bindings : index >= len
        THEN [panic |-> TRUE, layouts |-> <<>>]
        ELSE [panic |-> FALSE,
              layouts |-> [pos \in 0..(len - 1) |->
                              IF pos \in DOMAIN bindings THEN bindings[pos]
                              ELSE NullLayout]]

\* pool_sizes: one DescriptorPoolSize is pushed for every binding of every
\* set.  The sets are visited in the order of a HashMap, which is not
\* specified, so the Vec is kept as a bag: entry -> number of times pushed.
PoolSizeOf(b) == [ty |-> b.descriptor_type, descriptor_count |-> b.descriptor_count]
BindingSlots(bindings) ==
    UNION {{<<set, k>> : k \in 1..Len(bindings[set])} : set \in DOMAIN bindings}

\* pool_sizes with one entry for every distinct (type, count) pair.
PoolSizesDistinct(bindings) ==
    LET slots == BindingSlots(bindings)
        entries == {PoolSizeOf(bindings[p[1]][p[2]]) : p \in slots}
    IN  [e \in entries |-> 1]

PoolSizes(bindings) ==
    LET slots == BindingSlots(bindings)
        entries == {PoolSizeOf(bindings[p[1]][p[2]]) : p \in slots}
    IN  [e \in entries |->
            Cardinality({p \in slots : PoolSizeOf(bindings[p[1]][p[2]]) = e})]

\* What ShaderCompiler::compile_string can hand back: failed() and
\* error_string(), which is empty for a source that compiles.
CompileResults ==
    {[failed |-> FALSE, error |-> ""],
     [failed |-> TRUE, error |-> "compute.glsl:1: error: syntax error"]}

\* The driver objects construction creates, by kind.
NoObjects ==
    [set_layouts |-> 0, pipeline_layouts |-> 0, shader_modules |-> 0,
     pipelines |-> 0, pools |-> 0, sets |-> 0]
AllObjects(len) ==
    [set_layouts |-> len, pipeline_layouts |-> 1, shader_modules |-> 1,
     pipelines |-> 1, pools |-> 1, sets |-> len]

\* u32 values are kept as two 16-bit halves, value = hi * Half + lo.
Half == 65536
U32(n) == [hi |-> n \div Half, lo |-> n % Half]
\* u32 * n for a small n: the low 32 bits of the product, and whether the
\* product needed more.
MulU32(a, n) ==
    LET l == a.lo * n
        h == a.hi * n + l \div Half
    IN  [value |-> [hi |-> h % Half, lo |-> l % Half], overflow |-> h >= Half]
\* n <= a for a small n.
LeqU32(n, a) == a.hi > 0 \/ n <= a.lo

\* The values of max_frames_in_flight the model passes: 0, 1, 2, 2^31 and
\* u32::MAX.
FrameCounts ==
    {U32(0), U32(1), U32(2), [hi |-> Half \div 2, lo |-> 0],
     [hi |-> Half - 1, lo |-> Half - 1]}

\* max_frames_in_flight * descriptor_set_bindings.len() as u32
MaxSetsOf(frames, len) == MulU32(frames, len)

\* descriptor_set_bindings after the merge of the explicit bindings.
Merged(refl, expl) ==
    IF expl = None THEN CreateDescriptorSetBindings(refl)
    ELSE MergeExplicit(CreateDescriptorSetBindings(refl), expl[1])

PipeOff ==
    /\ pRefl = <<>>
    /\ pExpl = None
    /\ pBindings = <<>>
    /\ pLayouts = <<>>
    /\ pPanic = FALSE
    /\ pPc = "off"
    /\ pCompile = [failed |-> FALSE, error |-> ""]
    /\ pPoolSizes = <<>>
    /\ pObjects = NoObjects
    /\ pReturn = None
    /\ pStdout = <<>>
    /\ pSets = <<>>
    /\ pCall = NoCall
    /\ pFrames = U32(0)
    /\ pMaxSets = None

\* A source that does not compile has no reflection.
InitPipe ==
    /\ pCompile \in CompileResults
    /\ pRefl \in (IF pCompile.failed THEN {<<>>} ELSE Reflections)
    /\ pExpl \in Explicits
    /\ pBindings = <<>>
    /\ pLayouts = <<>>
    /\ pPanic = FALSE
    /\ pPc = "call"
    /\ pPoolSizes = <<>>
    /\ pObjects = NoObjects
    /\ pReturn = None
    /\ pStdout = <<>>
    /\ pSets = <<>>
    /\ pCall = NoCall
    /\ pFrames \in FrameCounts
    /\ pMaxSets = None

\* ComputePipeline::new_from_source_string.  A source that compiles goes
\* through the merge, the layouts loop (which creates a layout before it
\* indexes the array, so a panic there leaves the layouts created so far),
\* and the creation of pipeline layout, shader module, pipeline, pool and
\* sets.  The product for max_sets panics on overflow in a build with
\* overflow checks and wraps in one without; allocating more sets than
\* max_sets may fail, and .expect then panics.  A source that does not
\* compile prints error_string() and returns None.
NewFromSourceString ==
    /\ pPc = "call"
    /\ pPc' = "done"
    /\ IF ~pCompile.failed
       THEN LET merged == Merged(pRefl, pExpl)
                built == BuildLayouts(merged)
                len == Cardinality(DOMAIN merged)
                bad == Cardinality({index \in DOMAIN merged : index >= len})
            IN  /\ pBindings' = merged
                /\ pLayouts' = built.layouts
                /\ pStdout' = pStdout
                /\ IF built.panic
                   THEN /\ pPanic' = TRUE
                        /\ \E n \in 1..(len - bad + 1) :
                              pObjects' = [NoObjects EXCEPT !.set_layouts = n]
                        /\ pPoolSizes' = <<>>
                        /\ pSets' = <<>>
                        /\ pReturn' = None
                        /\ pMaxSets' = None
                   ELSE LET m == MaxSetsOf(pFrames, len)
                        IN  \E checked \in {b \in BOOLEAN : b => m.overflow} :
                            \E refused \in {b \in BOOLEAN : b => ~LeqU32(len, m.value)} :
                              IF checked
                              THEN /\ pPanic' = TRUE
                                   /\ pObjects' = [AllObjects(len) EXCEPT
                                                     !.pools = 0, !.sets = 0]
                                   /\ pPoolSizes' = <<>>
                                   /\ pMaxSets' = None
                                   /\ pSets' = <<>>
                                   /\ pReturn' = None
                              ELSE /\ pPoolSizes' = PoolSizes(merged)
                                   /\ pMaxSets' = Some(m.value)
                                   /\ IF refused
                                      THEN /\ pPanic' = TRUE
                                           /\ pObjects' = [AllObjects(len) EXCEPT
                                                             !.sets = 0]
                                           /\ pSets' = <<>>
                                           /\ pReturn' = None
                                      ELSE /\ pPanic' = FALSE
                                           /\ pObjects' = AllObjects(len)
                                           /\ pSets' = built.layouts
                                           /\ pReturn' = Some("ComputePipeline")
       ELSE /\ pStdout' = Append(pStdout, pCompile.error)
            /\ pReturn' = None
            /\ UNCHANGED <<pBindings, pLayouts, pPanic, pPoolSizes, pObjects, pSets,
                           pMaxSets>>
    /\ UNCHANGED <<pRefl, pExpl, pCompile, pCall, pFrames>>

\* The arguments the model passes to the binding updates: one set index and
\* one binding index beyond what any pipeline of the model allocates.
UpdateSets == 0..(MaxSet + 1)
UpdateBindings == 0..3

\* The body the three binding updates share: self.descriptor_sets[set] is a
\* checked index and panics on a set index that is not below the length;
\* dst_binding takes the binding index as it is; update_descriptor_sets is
\* called with the one write.
UpdateDescriptorSet(op, ty, set, binding) ==
    /\ pPc = "done"
    /\ pReturn # None
    /\ ~(pCall.op # "none" /\ pCall.panic)
    /\ pCall' = IF set \notin DOMAIN pSets
                THEN [op |-> op, set |-> set, binding |-> binding,
                      panic |-> TRUE, writes |-> <<>>]
                ELSE [op |-> op, set |-> set, binding |-> binding,
                      panic |-> FALSE,
                      writes |-> <<[dst_set |-> set, dst_binding |-> binding,
                                    descriptor_type |-> ty]>>]
    /\ UNCHANGED <<pRefl, pExpl, pBindings, pLayouts, pPanic, pPc, pCompile,
                   pPoolSizes, pObjects, pReturn, pStdout, pSets, pFrames, pMaxSets>>

SetStorageBuffer(set, binding) ==
    UpdateDescriptorSet("set_storage_buffer", "STORAGE_BUFFER", set, binding)
SetStorageImage(set, binding) ==
    UpdateDescriptorSet("set_storage_image", "STORAGE_IMAGE", set, binding)
SetUniformBuffer(set, binding) ==
    UpdateDescriptorSet("set_uniform_buffer", "UNIFORM_BUFFER", set, binding)

NextPipe == NewFromSourceString

\* A pipeline as new_from_source_string returns it, ready for its binding
\* updates: built from a reflection alone or with one explicit binding
\* added to set 0.
InitDesc ==
    /\ pCompile = [failed |-> FALSE, error |-> ""]
    /\ pRefl \in Reflections
    /\ pExpl \in {None, Some(0 :> <<ExplicitA>>)}
    /\ ~BuildLayouts(Merged(pRefl, pExpl)).panic
    /\ pBindings = Merged(pRefl, pExpl)
    /\ pLayouts = BuildLayouts(pBindings).layouts
    /\ pPanic = FALSE
    /\ pPc = "done"
    /\ pPoolSizes = PoolSizes(pBindings)
    /\ pObjects = AllObjects(Cardinality(DOMAIN pBindings))
    /\ pReturn = Some("ComputePipeline")
    /\ pStdout = <<>>
    /\ pSets = pLayouts
    /\ pCall = NoCall
    /\ pFrames = U32(1)
    /\ pMaxSets = Some(MaxSetsOf(pFrames, Cardinality(DOMAIN pBindings)).value)

NextDesc ==
    \/ \E set \in UpdateSets, binding \in UpdateBindings : SetStorageBuffer(set, binding)
    \/ \E set \in UpdateSets, binding \in UpdateBindings : SetStorageImage(set, binding)
    \/ \E set \in UpdateSets, binding \in UpdateBindings : SetUniformBuffer(set, binding)

-----------------------------------------------------------------------------
(***************************************************************************)
(* Resources and the device context they are created through:              *)
(* BufferResource::new, Image2DResource::new, their Drop, and the          *)
(* Rc<DeviceContext> the caller and the resources hold.                    *)
(***************************************************************************)
ResIds == 1..NumRes

\* The memory types of the device of the model, and the memory_type_bits a
\* buffer or image can report for them.
GpuMemoryTypes == (0 :> {"DEVICE_LOCAL"}) @@ (1 :> {"DEVICE_LOCAL", "HOST_VISIBLE"})
GpuTypeBits == 0..3

NoFrees == [handle |-> 0, memory |-> 0]

ResOff ==
    /\ rKind = [r \in ResIds |-> "none"]
    /\ rState = [r \in ResIds |-> "none"]
    /\ rHandle = [r \in ResIds |-> "none"]
    /\ rMemory = [r \in ResIds |-> "none"]
    /\ rView = [r \in ResIds |-> "none"]
    /\ rHolds = [r \in ResIds |-> FALSE]
    /\ rFrees = [r \in ResIds |-> NoFrees]
    /\ ctxCaller = 0
    /\ ctxDropped = FALSE

\* let context = Rc::new(gpu.device_context(..)): the caller holds the one
\* reference, no resource exists.
InitRes ==
    /\ rKind = [r \in ResIds |-> "none"]
    /\ rState = [r \in ResIds |-> "none"]
    /\ rHandle = [r \in ResIds |-> "none"]
    /\ rMemory = [r \in ResIds |-> "none"]
    /\ rView = [r \in ResIds |-> "none"]
    /\ rHolds = [r \in ResIds |-> FALSE]
    /\ rFrees = [r \in ResIds |-> NoFrees]
    /\ ctxCaller = 1
    /\ ctxDropped = FALSE

\* Rc<DeviceContext>: the DeviceContext is dropped when the last reference
\* goes, the caller's or a resource's.
StrongCount(callerRefs, holds) == callerRefs + Cardinality({r \in ResIds : holds[r]})

\* Rc::clone by the caller.
CloneContext ==
    /\ ctxCaller >= 1
    /\ ctxCaller < MaxRefs
    /\ ctxCaller' = ctxCaller + 1
    /\ UNCHANGED <<rKind, rState, rHandle, rMemory, rView, rHolds, rFrees, ctxDropped>>

\* The caller drops one of its references.
DropContext ==
    /\ ctxCaller >= 1
    /\ ctxCaller' = ctxCaller - 1
    /\ ctxDropped' = (StrongCount(ctxCaller', rHolds) = 0)
    /\ UNCHANGED <<rKind, rState, rHandle, rMemory, rView, rHolds, rFrees>>

\* The caller can construct resource r: it holds a reference to pass, and
\* the resources are numbered in the order of their construction.
CanConstruct(r) ==
    /\ ctxCaller >= 1
    /\ rState[r] = "none"
    /\ \A q \in ResIds : q < r => rState[q] # "none"

\* What the construction of a resource leaves behind: the steps are run in
\* order, the first one that fails panics, and nothing a panic leaves
\* behind is released.  `passed` is "clone" when the caller passes a clone
\* of its reference and "move" when it passes the reference itself; either
\* way the argument is dropped when new returns or unwinds.
Construct(r, kind, passed, created, typeIndex, allocated, bound, viewed, keeps) ==
    LET done == created /\ typeIndex # None /\ allocated /\ bound /\ viewed
    IN  /\ rKind' = [rKind EXCEPT ![r] = kind]
        /\ rState' = [rState EXCEPT ![r] = IF done THEN "alive" ELSE "failed"]
        /\ rHandle' = [rHandle EXCEPT ![r] = IF created THEN "live" ELSE "none"]
        /\ rMemory' = [rMemory EXCEPT ![r] =
                          IF created /\ typeIndex # None /\ allocated
                          THEN "live" ELSE "none"]
        /\ rView' = [rView EXCEPT ![r] =
                        IF done /\ kind = "image" THEN "live" ELSE "none"]
        /\ rHolds' = [rHolds EXCEPT ![r] = done /\ keeps]
        /\ ctxCaller' = IF passed = "move" THEN ctxCaller - 1 ELSE ctxCaller
        /\ ctxDropped' = (StrongCount(ctxCaller', rHolds') = 0)
        /\ UNCHANGED rFrees

\* BufferResource::new: create_buffer, memory_type_index, allocate_memory,
\* bind_buffer_memory; the resource keeps device_context.clone().
NewBufferResource(r) ==
    /\ CanConstruct(r)
    /\ \E passed \in {"clone", "move"}, created, allocated, bound \in BOOLEAN,
          bits \in GpuTypeBits, flags \in PropertyFlags :
          Construct(r, "buffer", passed, created,
                    memory_type_index(bits, 2, GpuMemoryTypes, flags),
                    allocated, bound, TRUE, TRUE)

\* Image2DResource::new: create_image, memory_type_index, allocate_memory,
\* bind_image_memory, create_image_view; the resource keeps a clone of the
\* ash::Device, not of the Rc<DeviceContext>.
NewImage2DResource(r) ==
    /\ CanConstruct(r)
    /\ \E passed \in {"clone", "move"}, created, allocated, bound, viewed \in BOOLEAN,
          bits \in GpuTypeBits, flags \in PropertyFlags :
          Construct(r, "image", passed, created,
                    memory_type_index(bits, 2, GpuMemoryTypes, flags),
                    allocated, bound, viewed, FALSE)

\* Drop that destroys the native handle and leaves the memory allocated.
DropResourceHandleOnly(r) ==
    /\ rState[r] = "alive"
    /\ rState' = [rState EXCEPT ![r] = "dropped"]
    /\ rHandle' = [rHandle EXCEPT ![r] = "destroyed"]
    /\ rFrees' = [rFrees EXCEPT ![r].handle = @ + 1]
    /\ rHolds' = [rHolds EXCEPT ![r] = FALSE]
    /\ ctxDropped' = (StrongCount(ctxCaller, rHolds') = 0)
    /\ UNCHANGED <<rKind, rMemory, rView, ctxCaller>>

\* Drop for BufferResource and for Image2DResource: free_memory, then
\* destroy_buffer/destroy_image; then the fields are dropped, among them
\* the Rc<DeviceContext> of a buffer.  The ImageView is not destroyed.
DropResource(r) ==
    /\ rState[r] = "alive"
    /\ rState' = [rState EXCEPT ![r] = "dropped"]
    /\ rMemory' = [rMemory EXCEPT ![r] = "freed"]
    /\ rHandle' = [rHandle EXCEPT ![r] = "destroyed"]
    /\ rFrees' = [rFrees EXCEPT ![r] = [handle |-> @.handle + 1,
                                        memory |-> @.memory + 1]]
    /\ rHolds' = [rHolds EXCEPT ![r] = FALSE]
    /\ ctxDropped' = (StrongCount(ctxCaller, rHolds') = 0)
    /\ UNCHANGED <<rKind, rView, ctxCaller>>

NextRes ==
    \/ CloneContext
    \/ DropContext
    \/ \E r \in ResIds : NewBufferResource(r)
    \/ \E r \in ResIds : NewImage2DResource(r)
    \/ \E r \in ResIds : DropResource(r)

-----------------------------------------------------------------------------
(***************************************************************************)
(* Swapchain::next_frame_buffer and swap.  Handles are named by the        *)
(* position they have in the swapchain's vectors.                          *)
(***************************************************************************)
Framebuffer(i) == <<"framebuffer", i>>
Semaphore(i) == <<"semaphore", i>>

\* What acquire_next_image can return for a swapchain of n images.
AcquireErrors == {"ERROR_OUT_OF_DATE_KHR", "ERROR_SURFACE_LOST_KHR"}
AcquireResults(n) ==
    {[ok |-> TRUE, index |-> i, sub_optimal |-> f] : i \in 0..(n - 1), f \in BOOLEAN}
    \cup {[ok |-> FALSE, code |-> e] : e \in AcquireErrors}

SwapOff ==
    /\ swCount = 0
    /\ swCurrent = 0
    /\ swFrame = NoCall
    /\ swPresent = NoCall

\* Swapchain::new: one framebuffer and one semaphore per image,
\* current_index 0.
InitSwap ==
    /\ swCount \in 1..MaxImages
    /\ swCurrent = 0
    /\ swFrame = NoCall
    /\ swPresent = NoCall

\* next_frame_buffer without `current_index %= image_count()`.
NextFrameBufferNoWrap ==
    /\ swCount >= 1
    /\ \E acquired \in AcquireResults(swCount) :
          /\ swFrame' =
                [op |-> "next_frame_buffer",
                 handed |-> Semaphore(swCurrent),
                 acquired |-> acquired,
                 returned |-> IF acquired.ok
                              THEN [ok |-> TRUE,
                                    sub_optimal |-> acquired.sub_optimal,
                                    index |-> acquired.index,
                                    framebuffer |-> Framebuffer(acquired.index),
                                    semaphore |-> Semaphore(acquired.index)]
                              ELSE [ok |-> FALSE, code |-> acquired.code]]
          /\ swCurrent' = IF acquired.ok THEN swCurrent + 1 ELSE swCurrent
    /\ UNCHANGED <<swCount, swPresent>>

\* Swapchain::next_frame_buffer: acquire_next_image is handed
\* present_semaphores[current_index]; on Ok((index, sub_optimal)) the call
\* returns (sub_optimal, index, framebuffers[index], present_semaphores[index])
\* and advances current_index; on Err(code) it returns the code.
NextFrameBuffer ==
    /\ swCount >= 1
    /\ \E acquired \in AcquireResults(swCount) :
          /\ swFrame' =
                [op |-> "next_frame_buffer",
                 handed |-> Semaphore(swCurrent),
                 acquired |-> acquired,
                 returned |-> IF acquired.ok
                              THEN [ok |-> TRUE,
                                    sub_optimal |-> acquired.sub_optimal,
                                    index |-> acquired.index,
                                    framebuffer |-> Framebuffer(acquired.index),
                                    semaphore |-> Semaphore(acquired.index)]
                              ELSE [ok |-> FALSE, code |-> acquired.code]]
          /\ swCurrent' = IF acquired.ok THEN (swCurrent + 1) % swCount
                          ELSE swCurrent
    /\ UNCHANGED <<swCount, swPresent>>

\* Swapchain::swap(semaphore, index): queue_present waiting on the semaphore;
\* returns r.is_err().
Swap(semaphore, index) ==
    /\ swCount >= 1
    /\ \E failed \in BOOLEAN :
          swPresent' = [op |-> "swap", semaphore |-> semaphore, index |-> index,
                        returned |-> failed]
    /\ UNCHANGED <<swCount, swCurrent, swFrame>>

NextSwap ==
    \/ NextFrameBuffer
    \/ \E i, j \in 0..(swCount - 1) : Swap(Semaphore(i), j)

-----------------------------------------------------------------------------
(***************************************************************************)
(* Image layouts in recorded commands.                                     *)
(***************************************************************************)
\* The images the commands name: blit needs two.
ImgIds == {"a", "b"}

ImageLayouts == {"UNDEFINED", "GENERAL", "TRANSFER_DST_OPTIMAL"}

NoOp == [op |-> "none", uses |-> {}]

\* One image named by a command: the layout the command passes to the driver
\* and the image's layout field at that moment.
UseOf(image, layout) == [image |-> image, layout |-> layout, tracked |-> iLayout[image]]

ImgOff ==
    /\ iLayout = [i \in ImgIds |-> "none"]
    /\ iBarriers = [i \in ImgIds |-> <<>>]
    /\ iOp = NoOp

\* Image2DResource::new: layout: ImageLayout::UNDEFINED
InitImg ==
    /\ iLayout = [i \in ImgIds |-> "UNDEFINED"]
    /\ iBarriers = [i \in ImgIds |-> <<>>]
    /\ iOp = NoOp

LastTwo(s) == IF Len(s) > 2 THEN SubSeq(s, Len(s) - 1, Len(s)) ELSE s

\* CommandBuffer::image_resource_transition(image, layout)
ImageResourceTransition(image, layout) ==
    /\ iBarriers' = [iBarriers EXCEPT ![image] =
                        LastTwo(Append(@, [old |-> iLayout[image], new |-> layout]))]
    /\ iLayout' = [iLayout EXCEPT ![image] = layout]
    /\ UNCHANGED iOp

\* CommandBuffer::blit(src, dst)
Blit(src, dst) ==
    /\ src # dst
    /\ iOp' = [op |-> "blit",
               uses |-> {UseOf(src, iLayout[src]), UseOf(dst, iLayout[dst])}]
    /\ UNCHANGED <<iLayout, iBarriers>>

\* CommandBuffer::color_image_transition(&Image, old_layout, new_layout): the
\* caller passes the native image and both layouts; no layout field is read
\* or written.
ColorImageTransition(image, old_layout, new_layout) ==
    /\ iOp' = [op |-> "color_image_transition", uses |-> {}, image |-> image,
               old |-> old_layout, new |-> new_layout]
    /\ UNCHANGED <<iLayout, iBarriers>>

\* CommandBuffer::clear_image(image, r, g, b, a): cmd_clear_color_image is
\* passed ImageLayout::GENERAL.
ClearImage(image) ==
    /\ iOp' = [op |-> "clear_image", uses |-> {UseOf(image, "GENERAL")}]
    /\ UNCHANGED <<iLayout, iBarriers>>

\* CommandBuffer::copy_image_to_buffer(image, buffer)
CopyImageToBuffer(image) ==
    /\ iOp' = [op |-> "copy_image_to_buffer", uses |-> {UseOf(image, iLayout[image])}]
    /\ UNCHANGED <<iLayout, iBarriers>>

\* CommandBuffer::copy_buffer_to_image(buffer, image)
CopyBufferToImage(image) ==
    /\ iOp' = [op |-> "copy_buffer_to_image", uses |-> {UseOf(image, iLayout[image])}]
    /\ UNCHANGED <<iLayout, iBarriers>>

NextImg ==
    \/ \E i \in ImgIds : \E l \in ImageLayouts : ImageResourceTransition(i, l)
    \/ \E i, j \in ImgIds : Blit(i, j)
    \/ \E i \in ImgIds : \E o, n \in ImageLayouts : ColorImageTransition(i, o, n)
    \/ \E i \in ImgIds : ClearImage(i)
    \/ \E i \in ImgIds : CopyImageToBuffer(i)
    \/ \E i \in ImgIds : CopyBufferToImage(i)

-----------------------------------------------------------------------------
(***************************************************************************)
(* Queue families.                                                         *)
(***************************************************************************)
QueueFlagBits == {"GRAPHICS", "COMPUTE", "TRANSFER"}
QueueFlags == SUBSET QueueFlagBits

\* The tables get_physical_device_queue_family_properties can return, with
\* the families numbered from 0.
FamilyTables ==
    UNION {[0..(n - 1) -> QueueFlags \ {{}}] : n \in 1..MaxFamilies}

RECURSIVE FamilyFrom(_, _, _)
\* The loop of family_type_index from family `index` on.
FamilyFrom(table, flags, index) ==
    IF index \notin DOMAIN table THEN None
    ELSE IF flags \subseteq table[index] THEN Some(index)
    ELSE FamilyFrom(table, flags, index + 1)

\* Gpu::family_type_index(flags): the first family whose queue_flags contain
\* flags.
family_type_index(table, flags) == FamilyFrom(table, flags, 0)

QOff ==
    /\ qFamilies = <<>>
    /\ qDevice = "none"
    /\ qRequested = {}
    /\ qQueue = NoCall

\* A Gpu with its table of queue families; no DeviceContext yet.
InitQ ==
    /\ qFamilies \in FamilyTables
    /\ qDevice = "none"
    /\ qRequested = {}
    /\ qQueue = NoCall

\* DeviceContext::new: one DeviceQueueCreateInfo, for the first family with
\* GRAPHICS; panic!("No queue family found") without one.
NewDeviceContext ==
    /\ qDevice = "none"
    /\ LET index == family_type_index(qFamilies, {"GRAPHICS"})
       IN  IF index # None
           THEN qDevice' = "created" /\ qRequested' = {index[1]}
           ELSE qDevice' = "panicked" /\ qRequested' = {}
    /\ UNCHANGED <<qFamilies, qQueue>>

\* CommandQueue::new(device, flags): queue_family_index(flags).unwrap(), a
\* command pool for that family, and get_device_queue(family, 0).  For a
\* family without a requested queue the driver calls are invalid: the call
\* may bring the process down or hand back whatever the driver returns.
NewCommandQueue(flags) ==
    /\ qDevice = "created"
    /\ LET index == family_type_index(qFamilies, flags)
       IN  IF index = None
           THEN qQueue' = [op |-> "new", flags |-> flags, panic |-> TRUE,
                           family |-> None]
           ELSE \E down \in {b \in BOOLEAN : b => index[1] \notin qRequested} :
                  qQueue' = [op |-> "new", flags |-> flags, panic |-> down,
                             family |-> index]
    /\ UNCHANGED <<qFamilies, qDevice, qRequested>>

NextQ ==
    \/ NewDeviceContext
    \/ \E flags \in QueueFlags : NewCommandQueue(flags)

-----------------------------------------------------------------------------
(***************************************************************************)
(* The specifications.                                                     *)
(***************************************************************************)
Init == InitSub /\ MemOff /\ BufOff /\ PipeOff /\ ResOff /\ SwapOff /\ ImgOff /\ QOff
Next == NextSub /\ UNCHANGED <<memVars, bufVars, pipeVars, resVars, swVars, imgVars, qVars>>
Spec == Init /\ [][Next]_vars

NextTokens == NextToken /\ UNCHANGED <<memVars, bufVars, pipeVars, resVars, swVars, imgVars, qVars>>
SpecToken == Init /\ [][NextTokens]_vars

\* The device makes progress on every submitted command buffer, and a thread
\* blocked in wait_for_fences runs again once the fence is signaled.
otherVars == <<memVars, bufVars, pipeVars, resVars, swVars, imgVars, qVars>>
TokenFairness ==
    \A c \in CmdIds :
        /\ WF_vars(GpuFinish(c) /\ UNCHANGED otherVars)
        /\ WF_vars(WaitReturn(c) /\ UNCHANGED otherVars)
        /\ WF_vars(DropReturn(c) /\ UNCHANGED otherVars)
NextWaits == NextWait /\ UNCHANGED otherVars
SpecTokenFair == Init /\ [][NextWaits]_vars /\ TokenFairness

InitMemory == InitMem /\ InitSub /\ BufOff /\ PipeOff /\ ResOff /\ SwapOff /\ ImgOff /\ QOff
NextMemory == NextMem /\ UNCHANGED <<subVars, bufVars, pipeVars, resVars, swVars, imgVars, qVars>>
SpecMemory == InitMemory /\ [][NextMemory]_vars

InitBuffer == InitBuf /\ InitSub /\ MemOff /\ PipeOff /\ ResOff /\ SwapOff /\ ImgOff /\ QOff
NextBuffer == NextBuf /\ UNCHANGED <<subVars, memVars, pipeVars, resVars, swVars, imgVars, qVars>>
SpecBuffer == InitBuffer /\ [][NextBuffer]_vars

NextTransfer == NextXfer /\ UNCHANGED <<subVars, memVars, pipeVars, resVars, swVars, imgVars, qVars>>
SpecTransfer == InitBuffer /\ [][NextTransfer]_vars

NextMapping == NextMap /\ UNCHANGED <<subVars, memVars, pipeVars, resVars, swVars, imgVars, qVars>>
SpecMapping == InitBuffer /\ [][NextMapping]_vars

InitPipeline == InitPipe /\ InitSub /\ MemOff /\ BufOff /\ ResOff /\ SwapOff /\ ImgOff /\ QOff
NextPipeline == NextPipe /\ UNCHANGED <<subVars, memVars, bufVars, resVars, swVars, imgVars, qVars>>
SpecPipeline == InitPipeline /\ [][NextPipeline]_vars

InitDescriptor == InitDesc /\ InitSub /\ MemOff /\ BufOff /\ ResOff /\ SwapOff /\ ImgOff /\ QOff
NextDescriptor == NextDesc /\ UNCHANGED <<subVars, memVars, bufVars, resVars, swVars, imgVars, qVars>>
SpecDescriptor == InitDescriptor /\ [][NextDescriptor]_vars

InitResource == InitRes /\ InitSub /\ MemOff /\ BufOff /\ PipeOff /\ SwapOff /\ ImgOff /\ QOff
NextResource == NextRes /\ UNCHANGED <<subVars, memVars, bufVars, pipeVars, swVars, imgVars, qVars>>
SpecResource == InitResource /\ [][NextResource]_vars

InitSwapchain == InitSwap /\ InitSub /\ MemOff /\ BufOff /\ PipeOff /\ ResOff /\ ImgOff /\ QOff
NextSwapchain == NextSwap /\ UNCHANGED <<subVars, memVars, bufVars, pipeVars, resVars, imgVars, qVars>>
SpecSwapchain == InitSwapchain /\ [][NextSwapchain]_vars

InitImage == InitImg /\ InitSub /\ MemOff /\ BufOff /\ PipeOff /\ ResOff /\ SwapOff /\ QOff
NextImage == NextImg /\ UNCHANGED <<subVars, memVars, bufVars, pipeVars, resVars, swVars, qVars>>
SpecImage == InitImage /\ [][NextImage]_vars

InitQueue == InitQ /\ InitSub /\ MemOff /\ BufOff /\ PipeOff /\ ResOff /\ SwapOff /\ ImgOff
NextQueue == NextQ /\ UNCHANGED <<subVars, memVars, bufVars, pipeVars, resVars, swVars, imgVars>>
SpecQueue == InitQueue /\ [][NextQueue]_vars

-----------------------------------------------------------------------------
(***************************************************************************)
(* Claims about submission.                                                *)
(***************************************************************************)

\* C1: while a command buffer recorded between begin() and submit() is
\* pending on the device (its fence is unsignaled), every BufferResource its
\* commands name is alive.
C1_ResourcesOutliveWork ==
    \A c \in CmdIds :
        (cbNative[c] = "pending" /\ fence[c] = "unsignaled" /\ ~misuse[c])
            => \A b \in cbRefs[c] : bufAlive[b]

\* C2: a command buffer is freed only with its fence signaled, a WaitHandle
\* inside its drop with the fence unsignaled has not freed it, a dropped
\* WaitHandle has freed it, and a WaitHandle exists only for a command buffer
\* that submit() passed to queue_submit.
C2_DropWaitsThenFrees ==
    \A c \in CmdIds :
        /\ cbNative[c] = "freed" => fence[c] = "signaled"
        /\ (tok[c] = "dropping" /\ fence[c] = "unsignaled") => cbNative[c] = "pending"
        /\ tok[c] = "dropped" <=> cbNative[c] = "freed"
        /\ tok[c] # "none" => (submits[c] = 1 /\ cbOwner[c] \in {"token", "gone"})

\* C2 witness: a WaitHandle was dropped, and its command buffer freed, without
\* wait() ever having been called on it.
C2_Witness ==
    \E c \in CmdIds :
        tok[c] = "dropped" /\ ~waited[c] /\ cbNative[c] = "freed" /\ ~misuse[c]

C4_WaitAndPoll ==
    \A c \in CmdIds :
        /\ waited[c] => fence[c] = "signaled"
        /\ poll[c] # NoPoll => (poll[c].res <=> poll[c].fenceAt = "signaled")
        /\ (poll[c] # NoPoll /\ poll[c].afterWait) => poll[c].res

\* C4 witness: has_completed() returned false on one token whose work is
\* still running, and true on another after its wait() returned.
C4_Witness ==
    \E c, d \in CmdIds :
        /\ poll[c] = [op |-> "has_completed", res |-> FALSE,
                      fenceAt |-> "unsignaled", afterWait |-> FALSE]
        /\ cbNative[c] = "pending" /\ tok[c] = "alive"
        /\ poll[d] = [op |-> "has_completed", res |-> TRUE,
                      fenceAt |-> "signaled", afterWait |-> TRUE]
        /\ waited[d]

-----------------------------------------------------------------------------
(***************************************************************************)
(* Claims about memory_type_index.                                         *)
(***************************************************************************)
\* Bit i of the filter is set.
FilterBit(filter, i) == (filter \div (2 ^ i)) % 2 = 1

\* The indices a request accepts: below the count, named by the filter, with
\* property flags that include the flags asked for.
Accepted ==
    {i \in 0..(mCount - 1) : FilterBit(mFilter, i) /\ mFlags \subseteq mTypes[i]}

\* C5: whenever an accepted index exists (index 0 included), memory_type_index
\* returns Some of the smallest accepted index.
C5_FirstAccepted ==
    (mPc = "done" /\ Accepted # {}) => mResult = Some(SetMinOf(Accepted))

\* C6: memory_type_index returns an index only if it is accepted (its filter
\* bit is set and its flags include the request), and None when no index is
\* accepted.
C6_OnlyAccepted ==
    mPc = "done" =>
        /\ mResult # None => mResult[1] \in Accepted
        /\ Accepted = {} => mResult = None

\* C6 witness: a call that returned an index although a smaller index was
\* named by the filter with flags that do not include the request.
C6_Witness ==
    /\ mPc = "done"
    /\ mResult # None
    /\ \E j \in 0..(mCount - 1) :
          j < mResult[1] /\ j > 0 /\ FilterBit(mFilter, j) /\ ~(mFlags \subseteq mTypes[j])

-----------------------------------------------------------------------------
(***************************************************************************)
(* Claims about BufferResource transfers.                                  *)
(***************************************************************************)
\* The last write call passed data that covers the content range exactly.
Dense == bLast.op # "none" /\ Len(bLast.data) * bLast.w = bContent

\* C7: copy_data::<T>() returns content_size / size_of::<T>() elements, and
\* after upload(data) with N elements of T into a buffer of content size
\* N * size_of::<T>() it returns exactly data.
C7_RoundTrip ==
    bOut # NoOut =>
        /\ Len(bOut.vals) = bContent \div bOut.w
        /\ (bLast.op = "upload" /\ bLast.w = bOut.w /\ Dense) => bOut.vals = bLast.data

\* C7 witness: two elements wider than one byte went through upload and
\* copy_data.
C7_Witness ==
    /\ bOut # NoOut /\ bOut.w = 2
    /\ bLast.op = "upload" /\ bLast.w = 2 /\ Dense
    /\ Len(bLast.data) = 2 /\ bOut.vals = <<255, 256>>

\* C8: copy_aligned_to(data, element_size, stride) with stride = element_size
\* (a whole number of T, the content range a whole number of strides) and
\* data covering the content range returns with the bytes that upload(data)
\* leaves on the same buffer, for every element width.
C8_AlignedEqualsUpload ==
    (/\ bLast.op = "copy_aligned_to" /\ bLast.stride = bLast.es /\ Dense
     /\ bLast.es % bLast.w = 0 /\ bContent % bLast.stride = 0) =>
        /\ ~bPanic
        /\ bMem = UploadMem(bBefore, bLast.data, bLast.w)

-----------------------------------------------------------------------------
(***************************************************************************)
(* Claims about pipeline construction.                                     *)
(***************************************************************************)
\* The bindings the reflection declares for a set, in reflection order.
ReflectedBindings(set) == CreateDescriptorSetBindings(pRefl)[set]

\* C9: for a source that compiles, after the merge a set index that only the explicit bindings name
\* holds exactly the explicit list, a set index that both name holds the
\* reflected bindings followed by the explicit ones, and a set index that
\* only the reflection names holds the reflected bindings.
C9_ExplicitAppended ==
    (pPc = "done" /\ ~pCompile.failed /\ pExpl # None) =>
        /\ DOMAIN pBindings = (DOMAIN pRefl) \cup (DOMAIN pExpl[1])
        /\ \A set \in DOMAIN pBindings :
              LET r == IF set \in DOMAIN pRefl THEN ReflectedBindings(set) ELSE <<>>
                  e == IF set \in DOMAIN pExpl[1] THEN pExpl[1][set] ELSE <<>>
              IN  /\ Len(pBindings[set]) = Len(r) + Len(e)
                  /\ SubSeq(pBindings[set], 1, Len(r)) = r
                  /\ SubSeq(pBindings[set], Len(r) + 1, Len(r) + Len(e)) = e

\* C9 witness: a pipeline was built whose explicit bindings name a set the
\* reflection lacks and a set the reflection declares with two bindings.
C9_Witness ==
    /\ pPc = "done" /\ ~pPanic /\ pExpl # None
    /\ \E new, old \in DOMAIN pExpl[1] :
          /\ new \notin DOMAIN pRefl /\ pExpl[1][new] # <<>>
          /\ old \in DOMAIN pRefl /\ Len(ReflectedBindings(old)) = 2
          /\ Len(pExpl[1][old]) = 2 /\ Len(pBindings[old]) = 4

\* C10: construction does not fail on the layouts array, the array has the
\* positions 0..max set index, and the layout of set s is at position s.
C10_DenseLayouts ==
    (pPc = "done" /\ pBindings # <<>>) =>
        /\ ~pPanic
        /\ DOMAIN pLayouts = 0..SetMaxOf(DOMAIN pBindings)
        /\ \A set \in DOMAIN pBindings : pLayouts[set] = pBindings[set]

RECURSIVE SumFn(_)
\* The sum of the values of a function with a finite domain.
SumFn(f) ==
    IF DOMAIN f = {} THEN 0
    ELSE LET x == CHOOSE x \in DOMAIN f : TRUE
         IN  f[x] + SumFn([y \in (DOMAIN f) \ {x} |-> f[y]])

DescriptorKinds == {"STORAGE_BUFFER", "UNIFORM_BUFFER", "STORAGE_IMAGE", "SAMPLER"}

\* What the entries of kind ty passed to create_descriptor_pool add up to.
PoolTotal(ty) ==
    SumFn([e \in {x \in DOMAIN pPoolSizes : x.ty = ty} |->
              e.descriptor_count * pPoolSizes[e]])

\* The sum of descriptor_count over the bindings of kind ty of all sets.
DeclaredTotal(ty) ==
    SumFn([p \in {q \in BindingSlots(pBindings) :
                     pBindings[q[1]][q[2]].descriptor_type = ty} |->
              pBindings[p[1]][p[2]].descriptor_count])

\* C11: when construction reaches the creation of the descriptor pool, the
\* pool sizes passed add up, for each descriptor kind, to the sum of
\* descriptor_count over all bindings of that kind in all sets, and the
\* layout of every set was created from exactly the bindings of that set.
C11_PoolTotals ==
    (pPc = "done" /\ pObjects.pools = 1) =>
        /\ \A ty \in DescriptorKinds : PoolTotal(ty) = DeclaredTotal(ty)
        /\ DOMAIN pLayouts = DOMAIN pBindings
        /\ \A set \in DOMAIN pBindings : pLayouts[set] = pBindings[set]

\* C11 witness: a pool was created for a pipeline in which two sets declare
\* a binding of the same kind and the same non-zero count.
C11_Witness ==
    /\ pPc = "done" /\ pObjects.pools = 1
    /\ \E p, q \in BindingSlots(pBindings) :
          /\ p[1] # q[1]
          /\ PoolSizeOf(pBindings[p[1]][p[2]]) = PoolSizeOf(pBindings[q[1]][q[2]])
          /\ pBindings[p[1]][p[2]].descriptor_count > 1

\* The binding indices of the layout descriptor set `set` was allocated with.
AllocatedBindings(set) == {pSets[set][k].binding : k \in 1..Len(pSets[set])}

\* C12: a binding update whose set index and binding index name a slot the
\* pipeline allocated issues exactly one descriptor write, to that slot; an
\* update whose set index or binding index names no allocated slot panics
\* and no descriptor write reaches the driver.
C12_UpdateInBounds ==
    pCall.op # "none" =>
        IF pCall.set \in DOMAIN pSets /\ pCall.binding \in AllocatedBindings(pCall.set)
        THEN /\ ~pCall.panic
             /\ Len(pCall.writes) = 1
             /\ pCall.writes[1].dst_set = pCall.set
             /\ pCall.writes[1].dst_binding = pCall.binding
        ELSE /\ pCall.panic
             /\ pCall.writes = <<>>

\* C13: when the source does not compile, construction creates no driver
\* object, returns no pipeline, and the value it returns holds the text of
\* the compiler's diagnostic.
C13_CompileFailure ==
    (pPc = "done" /\ pCompile.failed) =>
        /\ pObjects = NoObjects
        /\ pReturn # Some("ComputePipeline")
        /\ \E i \in DOMAIN pReturn : pReturn[i] = pCompile.error

-----------------------------------------------------------------------------
(***************************************************************************)
(* Claims about resources and the device context.                          *)
(***************************************************************************)
\* C14: a construction that fails returns no resource and leaves neither
\* the native handle nor the memory it created live.
C14_AllOrNothing ==
    \A r \in ResIds :
        rState[r] = "failed" =>
            /\ rHandle[r] # "live"
            /\ rMemory[r] # "live"

\* C15: a resource that is alive has its native handle and its memory live
\* and neither was released; a resource that was dropped has both released,
\* each exactly once.
C15_ReleasedTogether ==
    \A r \in ResIds :
        /\ rState[r] = "alive" =>
              /\ rHandle[r] = "live" /\ rMemory[r] = "live"
              /\ rFrees[r] = [handle |-> 0, memory |-> 0]
        /\ rState[r] = "dropped" =>
              /\ rHandle[r] = "destroyed" /\ rMemory[r] = "freed"
              /\ rFrees[r] = [handle |-> 1, memory |-> 1]

\* C15 witness: a buffer and an image were constructed, one of them has
\* been dropped and the other is still alive.
C15_Witness ==
    \E r, q \in ResIds :
        /\ rKind[r] # rKind[q]
        /\ rState[r] = "dropped"
        /\ rState[q] = "alive"

\* C19: while a resource created through the device context is alive, the
\* device context has not been dropped.
C19_ContextOutlives ==
    \A r \in ResIds : rState[r] = "alive" => ~ctxDropped

-----------------------------------------------------------------------------
(***************************************************************************)
(* Claims about the swapchain.                                             *)
(***************************************************************************)
\* C20: when acquire_next_image succeeds, next_frame_buffer returns the
\* index and the suboptimal flag the driver returned, the framebuffer of
\* that index, and the semaphore that was handed to acquire_next_image;
\* when it fails, next_frame_buffer returns the driver's error code.
C20_FrameOfAcquire ==
    swFrame.op # "none" =>
        IF swFrame.acquired.ok
        THEN /\ swFrame.returned.ok
             /\ swFrame.returned.index = swFrame.acquired.index
             /\ swFrame.returned.sub_optimal = swFrame.acquired.sub_optimal
             /\ swFrame.returned.framebuffer = Framebuffer(swFrame.acquired.index)
             /\ swFrame.returned.semaphore = swFrame.handed
        ELSE swFrame.returned = [ok |-> FALSE, code |-> swFrame.acquired.code]

-----------------------------------------------------------------------------
(***************************************************************************)
(* Claims about the sizes of a buffer.                                     *)
(***************************************************************************)
\* C16: in every state of a buffer the allocated size is at least the
\* content size, and no operation changes either of the two.
C16_SizesFixed ==
    /\ [](bSize >= bContent)
    /\ [][bSize' = bSize /\ bContent' = bContent]_vars

\* C16 witness: a buffer whose allocation is larger than its content was
\* written by upload and read back by copy_data.
C16_Witness ==
    /\ bSize > bContent /\ bContent > 0
    /\ bLast.op = "upload" /\ Len(bLast.data) > 0
    /\ bOut # NoOut

-----------------------------------------------------------------------------
(***************************************************************************)
(* Claims about the recorder's states and the token's waits.               *)
(***************************************************************************)
\* C17: a recording call on a command buffer reaches the driver only while
\* the command buffer is recording (begin() was called, end() and submit()
\* were not), and begin() reaches the driver only for a command buffer that
\* was not begun before.
C17_RecorderStates ==
    [][\A c \in CmdIds :
          /\ (RecordCmd(c) \/ \E b \in BufIds : BufferResourceBarrier(c, b))
                => cbNative[c] = "recording"
          /\ Begin(c) => cbNative[c] = "initial"]_vars

\* C18: has_completed(), wait() and wait_for() change neither the fence nor
\* the state of the submitted work; wait_for() does not panic, and returns
\* true if the fence is signaled when it returns and false if it is not.
C18_WaitsObserve ==
    [][\A c \in CmdIds :
          /\ \/ poll' # poll
             \/ /\ caller' # caller
                /\ {caller.op, caller'.op} \cap {"wait", "wait_for"} # {}
             => (fence' = fence /\ cbNative' = cbNative)
          /\ caller = [op |-> "wait_for", t |-> c] => ~crashed'
          /\ (caller = [op |-> "wait_for", t |-> c] /\ caller' = Idle) =>
                /\ poll'[c].op = "wait_for"
                /\ poll'[c].res = (fence[c] = "signaled")]_vars

\* C18 witness: wait_for() returned false while the work was running; the
\* work then completed and wait() returned.
C18_Witness ==
    \E c \in CmdIds :
        /\ poll[c] = [op |-> "wait_for", res |-> FALSE, fenceAt |-> "unsignaled",
                      afterWait |-> FALSE]
        /\ cbNative[c] = "spent" /\ fence[c] = "signaled"
        /\ waited[c]

-----------------------------------------------------------------------------
(***************************************************************************)
(* Claims about the end of recording.                                      *)
(***************************************************************************)
\* C21: submit() on a begun command buffer ends the recording exactly once:
\* its end_command_buffer is the only one the command buffer receives (the
\* recording was not ended before), a fresh unsignaled fence is created, and
\* one queue_submit carries the command buffer and that fence.
C21_EndedOnce ==
    [][\A c \in CmdIds :
          (Submit(c) /\ ~misuse[c] /\ cbNative[c] # "initial") =>
              /\ cbNative[c] = "recording"
              /\ fence[c] = "none" /\ fence'[c] = "unsignaled"
              /\ submits'[c] = 1 /\ cbNative'[c] = "pending"]_vars

-----------------------------------------------------------------------------
(***************************************************************************)
(* Claims about image layouts.                                             *)
(***************************************************************************)
\* C22: the barrier of image_resource_transition(image, L) goes to L and
\* leaves L as the image's layout; the old layout of each such barrier is the
\* new layout of the one before it on the same image; and every recorded
\* blit, copy or clear passes, for each image it names, the image's layout as
\* tracked at that moment.
C22_LayoutTracked ==
    /\ \A i \in ImgIds :
          /\ iBarriers[i] # <<>> => iBarriers[i][Len(iBarriers[i])].new = iLayout[i]
          /\ Len(iBarriers[i]) = 2 => iBarriers[i][2].old = iBarriers[i][1].new
    /\ \A u \in iOp.uses : u.layout = u.tracked

-----------------------------------------------------------------------------
(***************************************************************************)
(* Claims about writes at an offset and about the mapping.                 *)
(***************************************************************************)
\* How often the driver call c occurs in calls, and where.
CountOf(calls, c) == Cardinality({i \in 1..Len(calls) : calls[i] = c})
PosOf(calls, c) == CHOOSE i \in 1..Len(calls) : calls[i] = c

\* C23: after upload_at(offset, data) the bytes of the buffer in
\* [offset, offset + data.len() * size_of::<T>()) are the bytes of data and
\* every other byte is what it was before the call; upload(data) is the same
\* with offset 0; and the call flushes once, after its copy and before its
\* unmap.
C23_FrameEffect ==
    /\ bLast.op \in {"upload", "upload_at"} =>
          /\ bLast.op = "upload" => bLast.off = 0
          /\ \A j \in 1..bSize :
                bMem[j] = IF /\ j - 1 >= bLast.off
                             /\ j - 1 < bLast.off + Len(bLast.data) * bLast.w
                          THEN Bytes(bLast.data, bLast.w)[j - bLast.off]
                          ELSE bBefore[j]
    /\ (bTrace.op \in {"upload", "upload_at"} /\ ~bPanic) =>
          /\ \A c \in {"copy", "flush", "unmap"} : CountOf(bTrace.calls, c) = 1
          /\ PosOf(bTrace.calls, "copy") < PosOf(bTrace.calls, "flush")
          /\ PosOf(bTrace.calls, "flush") < PosOf(bTrace.calls, "unmap")

\* C23 witness: upload_at(1, [255u16]) wrote the two middle bytes of a
\* four-byte buffer and left the first and the last byte as they were.
C23_Witness ==
    /\ bLast = [op |-> "upload_at", w |-> 2, data |-> <<255>>, off |-> 1]
    /\ bTrace.op = "upload_at" /\ ~bPanic /\ ~bOob
    /\ bMem = <<170, 255, 0, 170>>

\* C26: map and unmap alternate on the memory: called on unmapped memory,
\* upload, upload_at, copy_aligned_to, copy_data and for_each return with the
\* memory unmapped, with as many unmaps as maps and with no driver call that
\* found the mapping in the wrong state; read returns with the memory mapped,
\* and flush_all after it leaves the memory unmapped.
C26_MapAlternates ==
    [][/\ (~bMapped /\ ~bMapFault /\ ~bPanic') =>
             /\ bTrace'.op \in {"upload", "upload_at", "copy_aligned_to",
                                "copy_data", "for_each"} =>
                   /\ ~bMapped' /\ ~bMapFault'
                   /\ CountOf(bTrace'.calls, "map") = CountOf(bTrace'.calls, "unmap")
             /\ bTrace'.op = "read" => (bMapped' /\ ~bMapFault')
       /\ (bMapped /\ ~bMapFault /\ bTrace'.op = "flush_all") =>
             (~bMapped' /\ ~bMapFault')]_vars

\* C30: on a buffer of positive size no copy of upload, upload_at or
\* copy_aligned_to leaves the range that was mapped for it or the allocation,
\* and a copy_aligned_to that returns has made ceil(content_size / stride)
\* steps.
C30_InBounds ==
    /\ bSize > 0 => ~bOob
    /\ (bTrace.op = "copy_aligned_to" /\ ~bPanic) =>
          CountOf(bTrace.calls, "map") =
              (bContent + bLast.stride - 1) \div bLast.stride

-----------------------------------------------------------------------------
(***************************************************************************)
(* Claims about the descriptor pool.                                       *)
(***************************************************************************)
\* C24: when construction creates the descriptor pool, the number of sets it
\* allocates from the pool is the number of layouts and is at most the
\* max_sets the pool was created with.
C24_SetsWithinPool ==
    (pPc = "done" /\ pMaxSets # None) =>
        /\ pObjects.sets = Cardinality(DOMAIN pLayouts)
        /\ LeqU32(pObjects.sets, pMaxSets[1])

-----------------------------------------------------------------------------
(***************************************************************************)
(* Claims about fences.                                                    *)
(***************************************************************************)
\* The command buffers whose fence exists, and those whose WaitHandle does.
LiveFences == {c \in CmdIds : fence[c] \in {"unsignaled", "signaled"}}
LiveTokens == {c \in CmdIds : tok[c] \in {"alive", "dropping"}}

\* C27: for command buffers that were begun and submitted as the driver
\* requires, the fence of a dropped WaitHandle has been destroyed, and there
\* are never more fences than WaitHandles.
C27_FencesDestroyed ==
    LET proper == {c \in CmdIds : ~misuse[c]}
    IN  ~crashed =>
            /\ \A c \in proper : tok[c] = "dropped" => c \notin LiveFences
            /\ Cardinality(LiveFences \cap proper) <= Cardinality(LiveTokens \cap proper)

-----------------------------------------------------------------------------
(***************************************************************************)
(* Claims about the swapchain's current index.                             *)
(***************************************************************************)
\* C28: current_index is always one of 0 .. image_count - 1; a
\* next_frame_buffer whose acquire succeeds moves it to the next index, from
\* the last index back to 0, and one whose acquire fails, like every other
\* call, leaves it where it was.
C28_IndexInRange ==
    /\ [](swCount >= 1 => swCurrent \in 0..(swCount - 1))
    /\ [][(swCurrent' # swCurrent \/ swFrame' # swFrame) =>
             /\ swFrame'.op = "next_frame_buffer"
             /\ swCurrent' = IF ~swFrame'.acquired.ok THEN swCurrent
                             ELSE IF swCurrent + 1 = swCount THEN 0
                             ELSE swCurrent + 1]_vars

\* C28 witness: on a swapchain of three images the acquire handed the
\* semaphore of the last index succeeded and current_index is back at 0.
C28_Witness ==
    /\ swCount = 3 /\ swCurrent = 0
    /\ swFrame.op = "next_frame_buffer" /\ swFrame.acquired.ok
    /\ swFrame.handed = Semaphore(2)

-----------------------------------------------------------------------------
(***************************************************************************)
(* Claims about queues.                                                    *)
(***************************************************************************)
\* C29: the family of the queue handle that a returning
\* CommandQueue::new(device, flags) holds, for flags that name at least one
\* capability, is a family for which a queue was requested when the device
\* was created.
C29_QueueWasRequested ==
    (qQueue.op = "new" /\ ~qQueue.panic /\ qQueue.flags # {}) =>
        qQueue.family[1] \in qRequested

-----------------------------------------------------------------------------
(***************************************************************************)
(* Claims about progress.                                                  *)
(***************************************************************************)
\* The issuing thread waits for the work of c, or the token of c is held
\* while that work is not known to be done.
Waiting(c) ==
    \/ caller = [op |-> "wait", t |-> c]
    \/ tok[c] = "dropping"
    \/ tok[c] = "alive" /\ fence[c] # "signaled"

\* C25: with a device that finishes every submitted command buffer, no
\* wait() and no drop of a token goes on forever and no token's fence stays
\* unsignaled forever; a wait() that returns has seen the fence signaled, a
\* dropped token has freed its command buffer, a signaled fence stays
\* signaled, and has_completed() returns true on a signaled fence.
C25_WaitsTerminate ==
    /\ \A c \in CmdIds : []<>(~Waiting(c))
    /\ [](\A c \in CmdIds :
            /\ tok[c] = "dropped" => cbNative[c] = "freed"
            /\ (poll[c].op = "has_completed" /\ poll[c].fenceAt = "signaled")
                  => poll[c].res)
    /\ [][\A c \in CmdIds :
            /\ fence[c] = "signaled" => fence'[c] = "signaled"
            /\ (caller = [op |-> "wait", t |-> c] /\ caller' # caller)
                  => (caller' = Idle /\ waited'[c] /\ fence[c] = "signaled")]_vars

\* C25 witness: one token was polled while its work was running and was then
\* dropped, its command buffer freed; on another, wait() returned and
\* has_completed() then returned true.
C25_Witness ==
    \E c, d \in CmdIds :
        /\ poll[c] = [op |-> "has_completed", res |-> FALSE, fenceAt |-> "unsignaled",
                      afterWait |-> FALSE]
        /\ tok[c] = "dropped" /\ cbNative[c] = "freed"
        /\ waited[d]
        /\ poll[d] = [op |-> "has_completed", res |-> TRUE, fenceAt |-> "signaled",
                      afterWait |-> TRUE]

====
